---- MODULE Spec2Model ----
(***************************************************************************)
(* A model of the SQLite viewer samples of this repository.                *)
(*                                                                         *)
(*  - the threaded chunk model of                                          *)
(*    pyside6_sqlite_million_sample_keyset_threaded.py: SqliteTableModel   *)
(*    on the GUI thread, ChunkLoaderWorker on a QThread, both joined by    *)
(*    queued signal connections (specification Spec);                      *)
(*  - _on_chunk_loaded applied to one set of requested windows in request  *)
(*    order and in an arbitrary order (specification SpecOrder);           *)
(*  - the thread-pool detail pipeline of                                   *)
(*    pyside6_sqlite_million_sample_keyset_thread.py (specification        *)
(*    SpecDetail).                                                         *)
(*                                                                         *)
(* Qt's event delivery is modelled by what it does: a queued connection    *)
(* posts the call to the receiver thread's FIFO event queue, a thread's    *)
(* event loop handles posted events one at a time, and QThread.quit() sets *)
(* the loop's exit flag, which the loop reads between events.              *)
(***************************************************************************)
EXTENDS Integers, Sequences, FiniteSets, TLC

\* ------------------------------------------------------------------------
\* Bounds of the model.  _cache_size (1000) and _max_cached_chunks (8) are
\* scaled down so that short windows and evictions happen in a small store.
\* ------------------------------------------------------------------------
MaxRows == 5

MaxFirstId == 2

CacheSize == 2

MaxCachedChunks == 2

\* columnCount(): len(self._headers), headers ["id", "value"]
NumCols == 2

\* windows of the table the two delivery orders are compared on
OrderWindows == 3

\* selection-changed events of one run of the detail pipeline
MaxSelections == 3

\* BATCH_SIZE (10_000), scaled down
BatchSize == 2

\* the largest target_rows ensure_database is called with
MaxTarget == 5

\* calls of ensure_database in one run
MaxSeedRuns == 3

\* the largest id of the tables range reads are checked on
MaxKey == 6

\* the largest LIMIT of those range reads
MaxLimit == 3

\* the largest table the fair runs of the detail pipeline are checked on
LiveRows == 2

VARIABLES
    \* --- threaded chunk model -------------------------------------------
    texts,            \* the texts table: id -> value
    row_count,        \* SqliteTableModel._row_count (snapshot)
    first_id,         \* SqliteTableModel._first_id / ChunkLoaderWorker._first_id
    chunk_cache,      \* _chunk_cache: a dict, kept in insertion order
    pending_chunks,   \* _pending_chunks
    workerQueue,      \* events posted to the worker thread (request_chunk, request_worker_close)
    mainQueue,        \* chunk_loaded events posted to the GUI thread
    conn,             \* ChunkLoaderWorker._conn: "none" or "open"
    quitFlag,         \* QThread.quit() was called
    workerRunning,    \* the worker thread's event loop is running
    mainState,        \* "running", "waiting" (inside close(), in QThread.wait()), "closed"
    failedReads,      \* windows whose range read raised in load_chunk
    storeUsers,       \* threads that opened, used or closed the worker's connection
    cacheWriters,     \* threads that changed _chunk_cache or _pending_chunks
    lastOp,           \* the last handler run on the GUI thread and what it returned or emitted
    \* --- _on_chunk_loaded under two delivery orders ----------------------
    orderInitial,     \* the cache both runs start from
    orderRequested,   \* the requested windows, in request order
    orderDoneA,       \* run A: how many completions were delivered, in request order
    orderCacheA,      \* run A: _chunk_cache
    orderPendingA,    \* run A: _pending_chunks
    orderCacheB,      \* run B: _chunk_cache
    orderPendingB,    \* run B: _pending_chunks, delivered in any order
    \* --- thread-pool detail pipeline -------------------------------------
    cache_start,        \* SqliteTableModel._cache_start (synchronous model)
    cache_rows,         \* SqliteTableModel._cache_rows
    detail_request_id,  \* MainWindow._detail_request_id
    detail_value,       \* what the detail pane shows, and the request that wrote it
    poolQueue,          \* QThreadPool: tasks queued, not started
    poolActive,         \* QThreadPool: the task its one thread runs, or NoTask
    detailQueue,        \* finished / failed signals posted to the GUI thread
    detailClosed,       \* closeEvent has run
    model_conn,         \* SqliteTableModel.conn of the synchronous model: "open" or "closed"
    detailLast,         \* the last GUI-thread handler of the pipeline and what it did
    createdTasks,       \* request ids a DetailTransformTask was created for
    ranTasks,           \* the request ids of the tasks run() was called on, in order
    \* --- ensure_database -------------------------------------------------
    seedPc,           \* "idle", "loop" (at the while test), "inserted" (before commit), "returned"
    seedTarget,       \* target_rows of the current call
    seedToInsert,     \* rows_to_insert
    seedUncommitted,  \* rows inserted by executemany and not yet committed
    seedBatches,      \* batches the current call committed
    seedAtCall,       \* the table when the current call began
    seedPrev,         \* the call before the current one: its target, whether it returned
    seedRuns,         \* calls made so far
    \* --- one range read --------------------------------------------------
    rangeStart,       \* the start id bound to the query
    rangeLimit,       \* the LIMIT bound to the query
    rangeResult,      \* fetchall()
    rangeDone,        \* a read has been made
    \* --- MainWindow of the threaded viewer -------------------------------
    selectedRow,      \* the row of the view's current index, -1 when there is none
    paneText,         \* the text of detail_value
    \* --- the synchronous model on its own --------------------------------
    syncLast          \* the last data() call: its index, its return, whether it queried

storeVars == <<texts, row_count, first_id>>

threadedVars == <<chunk_cache, pending_chunks, workerQueue,
                  mainQueue, conn, quitFlag, workerRunning, mainState, failedReads,
                  storeUsers, cacheWriters, lastOp>>

orderVars == <<orderInitial, orderRequested, orderDoneA, orderCacheA, orderPendingA,
               orderCacheB, orderPendingB>>

detailVars == <<cache_start, cache_rows, detail_request_id, detail_value, poolQueue,
                poolActive, detailQueue, detailClosed, model_conn, detailLast,
                createdTasks, ranTasks>>

seedVars == <<seedPc, seedTarget, seedToInsert, seedUncommitted, seedBatches, seedAtCall,
              seedPrev, seedRuns>>

rangeVars == <<rangeStart, rangeLimit, rangeResult, rangeDone>>

viewVars == <<selectedRow, paneText>>

syncVars == <<syncLast>>

vars == <<storeVars, threadedVars, orderVars, detailVars, seedVars, rangeVars, viewVars,
          syncVars>>

\* ------------------------------------------------------------------------
\* Values
\* ------------------------------------------------------------------------
\* Python's None, as returned by data()
None == <<"None">>

\* the id cell of the record with key k
IdCell(k) == <<"id", k>>

\* the value written at insertion for key k (random_text(), immutable afterwards)
TextCell(k) == <<"text", k>>

\* one fetched row: the tuple (id, value)
Record(k) == <<IdCell(k), TextCell(k)>>

SetMin(S) == CHOOSE m \in S : \A x \in S : m <= x

Min2(a, b) == IF a <= b THEN a ELSE b

\* ------------------------------------------------------------------------
\* The store
\* ------------------------------------------------------------------------
\* the rows of ids in ascending id order, limit of them at most (a negative
\* LIMIT is no limit)
RECURSIVE OrderedPrefix(_, _, _)
OrderedPrefix(table, ids, limit) ==
    IF ids = {} \/ limit = 0 THEN <<>>
    ELSE LET m == SetMin(ids)
         IN  <<(<<IdCell(m), table[m]>>)>> \o OrderedPrefix(table, ids \ {m}, limit - 1)

\* the query with WHERE id > ?
SelectRangeExclusive(table, start_id, limit) ==
    OrderedPrefix(table, {k \in DOMAIN table : k > start_id}, limit)

\* SELECT id, value FROM texts WHERE id >= ? ORDER BY id LIMIT ?
SelectRange(table, start_id, limit) ==
    OrderedPrefix(table, {k \in DOMAIN table : k >= start_id}, limit)

\* a table with n rows whose AUTOINCREMENT ids are first, first + 1, ...
DenseTable(first, n) == [k \in first .. (first + n - 1) |-> TextCell(k)]

\* SELECT COUNT(*) FROM texts
CountRows(table) == Cardinality(DOMAIN table)

\* SELECT MIN(id) FROM texts, with the fallback 1 of an empty table
FirstIdOf(table) == IF DOMAIN table = {} THEN 1 ELSE SetMin(DOMAIN table)

\* ------------------------------------------------------------------------
\* Signal wiring (SqliteTableModel.__init__)
\* ------------------------------------------------------------------------
\* the worker object lives in the worker thread (moveToThread)
WorkerAffinity == "worker"

\* the model lives in the thread that built it, the GUI thread
ModelAffinity == "main"

RequestChunkConnectionDirect == "Direct"

\* request_chunk.connect(load_chunk, QueuedConnection)
RequestChunkConnection == "Queued"

ChunkLoadedConnectionDirect == "Direct"

\* chunk_loaded.connect(_on_chunk_loaded, QueuedConnection)
ChunkLoadedConnection == "Queued"

\* an event put in front of the events already posted
PostEventFirst(queue, event) == <<event>> \o queue

\* a signal emitted over a queued connection: the call is posted to the
\* receiver thread's event queue, behind the events posted before it
PostEvent(queue, event) == Append(queue, event)

\* the thread a connected slot runs in: the receiver's for a queued connection,
\* the emitter's for a direct one
SlotThread(connection, receiverThread, emitterThread) ==
    IF connection = "Queued" THEN receiverThread ELSE emitterThread

\* the thread load_chunk and close_connection run in
LoadChunkThread == SlotThread(RequestChunkConnection, WorkerAffinity, ModelAffinity)

\* the thread _on_chunk_loaded runs in
OnChunkLoadedThread == SlotThread(ChunkLoadedConnection, ModelAffinity, LoadChunkThread)

\* ------------------------------------------------------------------------
\* SqliteTableModel: the dict _chunk_cache as a sequence of entries
\* ------------------------------------------------------------------------
CacheKeys(cache) == {cache[i].start : i \in 1 .. Len(cache)}

\* self._chunk_cache.get(chunk_start) for a key that is present
CacheGet(cache, chunk_start) ==
    (CHOOSE e \in {cache[i] : i \in 1 .. Len(cache)} : e.start = chunk_start).rows

\* self._chunk_cache[chunk_start] = rows: a present key keeps its place
CacheSet(cache, chunk_start, rows) ==
    IF chunk_start \in CacheKeys(cache)
    THEN [i \in 1 .. Len(cache) |->
             IF cache[i].start = chunk_start
             THEN [start |-> chunk_start, rows |-> rows] ELSE cache[i]]
    ELSE Append(cache, [start |-> chunk_start, rows |-> rows])

\* an index() that brings a position past the end back to the last row or column
IndexClamped(row, column) ==
    LET r == Min2(row, row_count - 1)
        c == Min2(column, NumCols - 1)
    IN  IF 0 <= r /\ 0 <= c
        THEN [valid |-> TRUE, row |-> r, column |-> c]
        ELSE [valid |-> FALSE, row |-> -1, column |-> -1]

\* QAbstractTableModel.index(row, column): hasIndex(...) ? createIndex(...) : QModelIndex()
Index(row, column) ==
    IF 0 <= row /\ row < row_count /\ 0 <= column /\ column < NumCols
    THEN [valid |-> TRUE, row |-> row, column |-> column]
    ELSE [valid |-> FALSE, row |-> -1, column |-> -1]

\* the row itself taken as the window start
ChunkStartIsRow(row, cache_size) == row

\* the window start rounded up instead of down
ChunkStartRoundsUp(row, cache_size) == ((row + cache_size - 1) \div cache_size) * cache_size

\* chunk_start = (row // self._cache_size) * self._cache_size
ChunkStart(row, cache_size) == (row \div cache_size) * cache_size

\* what data(index, DisplayRole) returns
DataValue(cache, index) ==
    IF ~index.valid THEN None
    ELSE LET chunk_start == ChunkStart(index.row, CacheSize)
             offset == index.row - chunk_start
         IN  IF chunk_start \notin CacheKeys(cache) THEN None
             ELSE LET rows == CacheGet(cache, chunk_start)
                  IN  IF offset < 0 \/ offset >= Len(rows) THEN None
                      ELSE rows[offset + 1][index.column + 1]

RequestPassesWithoutPendingCheck(chunk_start) ==
    ~(chunk_start < 0 \/ chunk_start >= row_count)

\* whether _request_chunk(chunk_start) goes past its two early returns
RequestPasses(chunk_start) ==
    /\ ~(chunk_start \in pending_chunks \/ chunk_start \in CacheKeys(chunk_cache))
    /\ ~(chunk_start < 0 \/ chunk_start >= row_count)

NoOp == [op |-> "none", row |-> -1, column |-> -1, ret |-> None, emitted |-> FALSE,
         chunk |-> -1, loaded |-> -1, evicted |-> 0, notified |-> <<>>]

EvictNothing(cache, chunk_start) == cache

RECURSIVE EvictAtCapacity(_, _)
EvictAtCapacity(cache, chunk_start) ==
    IF Len(cache) >= MaxCachedChunks
    THEN IF cache[1].start = chunk_start THEN cache
         ELSE EvictAtCapacity(Tail(cache), chunk_start)
    ELSE cache

\* an eviction that empties the cache, the window just stored included
EvictEverything(cache, chunk_start) == <<>>

\* an eviction that removes the window stored last before the new one
RECURSIVE EvictNewestOther(_, _)
EvictNewestOther(cache, chunk_start) ==
    IF Len(cache) > MaxCachedChunks /\ Len(cache) >= 2
    THEN EvictNewestOther(SubSeq(cache, 1, Len(cache) - 2) \o <<cache[Len(cache)]>>,
                          chunk_start)
    ELSE cache

\* while len(cache) > max: oldest = next(iter(cache)); break if it is chunk_start; del it
RECURSIVE Evict(_, _)
Evict(cache, chunk_start) ==
    IF Len(cache) > MaxCachedChunks
    THEN IF cache[1].start = chunk_start THEN cache
         ELSE Evict(Tail(cache), chunk_start)
    ELSE cache

PendingAfterLoadKept(pending, chunk_start) == pending

\* self._pending_chunks.discard(chunk_start)
PendingAfterLoad(pending, chunk_start) == pending \ {chunk_start}

\* _on_chunk_loaded, its effect on _chunk_cache
CacheAfterLoad(cache, chunk_start, loaded_rows) ==
    Evict(CacheSet(cache, chunk_start, loaded_rows), chunk_start)

NotifiedRowsOneTooFar(chunk_start, loaded_rows, total) ==
    IF loaded_rows # <<>>
    THEN <<chunk_start, Min2(chunk_start + Len(loaded_rows), total)>>
    ELSE <<>>

\* a dataChanged that covers the first row of the window only
NotifiedRowsFirstOnly(chunk_start, loaded_rows, total) ==
    IF loaded_rows # <<>> THEN <<chunk_start, chunk_start>> ELSE <<>>

\* the rows dataChanged covers (top_left.row, bottom_right.row); <<>> when nothing is emitted
NotifiedRows(chunk_start, loaded_rows, total) ==
    IF loaded_rows # <<>>
    THEN <<chunk_start, Min2(chunk_start + Len(loaded_rows) - 1, total - 1)>>
    ELSE <<>>

StartIdOffByOne(first, start_row) == first + start_row + 1

\* start_id = self._first_id + start_row
StartId(first, start_row) == first + start_row

\* ------------------------------------------------------------------------
\* Initial values; a specification leaves the parts it does not model at rest
\* ------------------------------------------------------------------------
\* the table after seeding, and the snapshot the model takes in __init__
StoreInit ==
    /\ \E f \in 1 .. MaxFirstId, n \in 0 .. MaxRows : texts = DenseTable(f, n)
    /\ row_count = CountRows(texts)
    /\ first_id = FirstIdOf(texts)

NoTask == [request_id |-> 0, row_id |-> 0, row_value |-> None]

NoDetailOp == [op |-> "none", request_id |-> 0, applied |-> FALSE]

EmptyPane == [kind |-> "placeholder", request_id |-> 0, text |-> None]

OrderAtRest ==
    /\ orderInitial = <<>>
    /\ orderRequested = <<>>
    /\ orderDoneA = 0
    /\ orderCacheA = <<>>
    /\ orderPendingA = {}
    /\ orderCacheB = <<>>
    /\ orderPendingB = {}

\* MainWindow.__init__ and SqliteTableModel.__init__ of the thread-pool sample
DetailInit ==
    /\ cache_start = -1
    /\ cache_rows = <<>>
    /\ detail_request_id = 0
    /\ detail_value = EmptyPane
    /\ poolQueue = <<>>
    /\ poolActive = NoTask
    /\ detailQueue = <<>>
    /\ detailClosed = FALSE
    /\ model_conn = "open"
    /\ detailLast = NoDetailOp
    /\ createdTasks = {}
    /\ ranTasks = <<>>

NoSeedCall == [target |-> -1, returned |-> FALSE]

\* no call of ensure_database is in progress
SeedAtRest ==
    /\ seedPc = "idle"
    /\ seedTarget = -1
    /\ seedToInsert = 0
    /\ seedUncommitted = 0
    /\ seedBatches = 0
    /\ seedAtCall = <<>>
    /\ seedPrev = NoSeedCall
    /\ seedRuns = 0

RangeAtRest ==
    /\ rangeStart = 0
    /\ rangeLimit = 0
    /\ rangeResult = <<>>
    /\ rangeDone = FALSE

\* detail_value.setPlainText("")
EmptyText == <<"">>

\* detail_value.setPlainText("Loading...")
LoadingText == <<"Loading...">>

\* no window is attached to the model
ViewAtRest ==
    /\ selectedRow = -1
    /\ paneText = EmptyText

NoSyncOp == [op |-> "none", row |-> -1, column |-> -1, ret |-> None, queried |-> FALSE]

\* no data() call has been made on the synchronous model
SyncAtRest == syncLast = NoSyncOp

ThreadedFrame == UNCHANGED <<orderVars, detailVars, seedVars, rangeVars, syncVars>>

\* what a step of the model or of its worker leaves alone, the window included
ModelFrame == ThreadedFrame /\ UNCHANGED viewVars

\* ------------------------------------------------------------------------
\* Specification Spec: the threaded chunk model
\* ------------------------------------------------------------------------
\* SqliteTableModel.__init__ of the threaded sample
ThreadedInit ==
    /\ chunk_cache = <<>>
    /\ pending_chunks = {}
    /\ workerQueue = <<>>
    /\ mainQueue = <<>>
    /\ conn = "none"
    /\ quitFlag = FALSE
    /\ workerRunning = TRUE
    /\ mainState = "running"
    /\ failedReads = {}
    /\ storeUsers = {}
    /\ cacheWriters = {}
    /\ lastOp = NoOp

Init ==
    /\ StoreInit
    /\ ThreadedInit
    /\ OrderAtRest
    /\ DetailInit
    /\ SeedAtRest
    /\ RangeAtRest
    /\ ViewAtRest
    /\ SyncAtRest

\* a GUI thread that runs slots and lookups while it is inside wait()
GuiThreadAlwaysFree == TRUE

\* the GUI thread runs view lookups and posted slots except while close() has
\* it blocked in self._worker_thread.wait()
GuiThreadFree == mainState # "waiting"

\* SqliteTableModel.data(index, DisplayRole) with _request_chunk on a miss: what it
\* does to the model
DataModel(row, column) ==
    LET index == Index(row, column)
        chunk_start == ChunkStart(index.row, CacheSize)
        miss == index.valid /\ chunk_start \notin CacheKeys(chunk_cache)
        emits == miss /\ RequestPasses(chunk_start)
    IN  /\ GuiThreadFree
        /\ IF emits
           THEN /\ pending_chunks' = pending_chunks \cup {chunk_start}
                /\ workerQueue' = PostEvent(workerQueue,
                       [type |-> "load", start_row |-> chunk_start, chunk_size |-> CacheSize])
                /\ cacheWriters' = cacheWriters \cup {ModelAffinity}
           ELSE UNCHANGED <<pending_chunks, workerQueue, cacheWriters>>
        /\ lastOp' = [NoOp EXCEPT !.op = "data", !.row = row, !.column = column,
                                  !.ret = DataValue(chunk_cache, index), !.emitted = emits,
                                  !.chunk = IF miss THEN chunk_start ELSE -1]
        /\ ThreadedFrame /\ UNCHANGED <<texts, row_count, first_id, chunk_cache, mainQueue, conn, quitFlag,
                       workerRunning, mainState, failedReads, storeUsers>>

\* data() called by the view to paint a cell
Data(row, column) == DataModel(row, column) /\ UNCHANGED viewVars

\* ChunkLoaderWorker.load_chunk, run by the worker's event loop for the oldest posted event
LoadChunk ==
    /\ workerRunning
    /\ workerQueue # <<>>
    /\ Head(workerQueue).type = "load"
    /\ LET req == Head(workerQueue)
           start_id == StartId(first_id, req.start_row)
       IN  \E outcome \in {"ok", "connect_raises", "execute_raises"} :
               /\ outcome = "connect_raises" => conn = "none"
               /\ conn' = IF outcome = "connect_raises" THEN "none" ELSE "open"
               /\ storeUsers' = storeUsers \cup {LoadChunkThread}
               /\ IF outcome = "ok"
                  THEN /\ mainQueue' = PostEvent(mainQueue,
                              [chunk_start |-> req.start_row,
                               rows |-> SelectRange(texts, start_id, req.chunk_size)])
                       /\ UNCHANGED failedReads
                  ELSE /\ failedReads' = failedReads \cup {req.start_row}
                       /\ UNCHANGED mainQueue
    /\ workerQueue' = Tail(workerQueue)
    /\ ModelFrame /\ UNCHANGED <<texts, row_count, first_id, chunk_cache, pending_chunks, quitFlag,
                   workerRunning, mainState, cacheWriters, lastOp>>

\* ChunkLoaderWorker.close_connection, run by the worker's event loop
CloseConnection ==
    /\ workerRunning
    /\ workerQueue # <<>>
    /\ Head(workerQueue).type = "close"
    /\ workerQueue' = Tail(workerQueue)
    /\ IF conn # "none"
       THEN conn' = "none" /\ storeUsers' = storeUsers \cup {LoadChunkThread}
       ELSE UNCHANGED <<conn, storeUsers>>
    /\ ModelFrame /\ UNCHANGED <<texts, row_count, first_id, chunk_cache, pending_chunks, mainQueue,
                   quitFlag, workerRunning, mainState, failedReads, cacheWriters, lastOp>>

\* the worker's event loop reads the exit flag between two events and returns
WorkerQuit ==
    /\ workerRunning
    /\ quitFlag
    /\ workerRunning' = FALSE
    /\ ModelFrame /\ UNCHANGED <<texts, row_count, first_id, chunk_cache, pending_chunks, workerQueue,
                   mainQueue, conn, quitFlag, mainState, failedReads, storeUsers,
                   cacheWriters, lastOp>>

\* SqliteTableModel._on_chunk_loaded, run by the GUI thread for the oldest posted
\* result: what it does to the model
OnChunkLoadedModel ==
    /\ GuiThreadFree
    /\ mainQueue # <<>>
    /\ LET chunk_start == Head(mainQueue).chunk_start
           loaded_rows == Head(mainQueue).rows
       IN  /\ pending_chunks' = PendingAfterLoad(pending_chunks, chunk_start)
           /\ chunk_cache' = CacheAfterLoad(chunk_cache, chunk_start, loaded_rows)
           /\ lastOp' = [NoOp EXCEPT !.op = "on_chunk_loaded", !.chunk = chunk_start,
                                     !.loaded = Len(loaded_rows),
                                     !.evicted = Len(chunk_cache) + 1 - Len(chunk_cache'),
                                     !.notified = NotifiedRows(chunk_start, loaded_rows, row_count)]
    /\ mainQueue' = Tail(mainQueue)
    /\ cacheWriters' = cacheWriters \cup {OnChunkLoadedThread}
    /\ ThreadedFrame /\ UNCHANGED <<texts, row_count, first_id, workerQueue, conn, quitFlag, workerRunning,
                   mainState, failedReads, storeUsers>>

\* _on_chunk_loaded with no slot of a window connected to dataChanged
OnChunkLoaded == OnChunkLoadedModel /\ UNCHANGED viewVars

\* SqliteTableModel.close up to its wait(): emit request_worker_close, quit()
CloseBegin ==
    /\ mainState = "running"
    /\ workerQueue' = PostEvent(workerQueue, [type |-> "close", start_row |-> -1, chunk_size |-> 0])
    /\ quitFlag' = TRUE
    /\ mainState' = "waiting"
    /\ lastOp' = [NoOp EXCEPT !.op = "close"]
    /\ ModelFrame /\ UNCHANGED <<texts, row_count, first_id, chunk_cache, pending_chunks, mainQueue, conn,
                   workerRunning, failedReads, storeUsers, cacheWriters>>

\* SqliteTableModel.close: wait() returns once the worker thread has finished
CloseReturn ==
    /\ mainState = "waiting"
    /\ ~workerRunning
    /\ mainState' = "closed"
    /\ ModelFrame /\ UNCHANGED <<texts, row_count, first_id, chunk_cache, pending_chunks, workerQueue,
                   mainQueue, conn, quitFlag, workerRunning, failedReads, storeUsers,
                   cacheWriters, lastOp>>

DataStep == \E row \in 0 .. row_count, column \in 0 .. NumCols : Data(row, column)

Next ==
    \/ DataStep
    \/ LoadChunk
    \/ CloseConnection
    \/ WorkerQuit
    \/ OnChunkLoaded
    \/ CloseBegin
    \/ CloseReturn

Spec == Init /\ [][Next]_vars

\* ------------------------------------------------------------------------
\* Properties of the threaded chunk model (checked under Spec)
\* ------------------------------------------------------------------------
\* the window starts of the snapshot
Windows == {w \in 0 .. row_count : w % CacheSize = 0 /\ w < row_count}

CountLoads(queue, w) ==
    Cardinality({i \in 1 .. Len(queue) : queue[i].type = "load" /\ queue[i].start_row = w})

CountResults(queue, w) ==
    Cardinality({i \in 1 .. Len(queue) : queue[i].chunk_start = w})

\* requests for w that are enqueued, or read and awaiting delivery
Outstanding(w) == CountLoads(workerQueue, w) + CountResults(mainQueue, w)

\* C1: at most one fetch request per window is outstanding at any time, and no
\* step enqueues a request for a window that is pending or cached.
NoDuplicateFetch ==
    /\ [](\A w \in Windows : Outstanding(w) <= 1)
    /\ [][\A w \in pending_chunks \cup CacheKeys(chunk_cache) :
              CountLoads(workerQueue', w) <= CountLoads(workerQueue, w)]_vars

\* C1 witness: data() missed into a window whose fetch is pending and emitted nothing
NoDuplicateFetchWitness ==
    /\ lastOp.op = "data"
    /\ lastOp.ret = None
    /\ lastOp.chunk \in pending_chunks
    /\ ~lastOp.emitted
    /\ Outstanding(lastOp.chunk) = 1

\* C2: the cache never holds more than _max_cached_chunks windows, and after
\* _on_chunk_loaded the window just completed is resident.
EvictionBound ==
    /\ Len(chunk_cache) <= MaxCachedChunks
    /\ lastOp.op = "on_chunk_loaded" => lastOp.chunk \in CacheKeys(chunk_cache)

\* C2 witness: a completion that evicted a window
EvictionBoundWitness ==
    /\ lastOp.op = "on_chunk_loaded"
    /\ lastOp.evicted >= 1
    /\ Len(chunk_cache) = MaxCachedChunks

\* C4: with dense, unchanged keys, for every position whose window is resident
\* data() returns the value stored for key first_id + p, and that key as the id.
RoundTrip ==
    \A p \in 0 .. (row_count - 1) :
        ChunkStart(p, CacheSize) \in CacheKeys(chunk_cache) =>
            /\ DataValue(chunk_cache, Index(p, 1)) = texts[first_id + p]
            /\ DataValue(chunk_cache, Index(p, 0)) = IdCell(first_id + p)

\* C4 witness: data() returned the last row's value from a short last window,
\* after the first window was evicted
RoundTripWitness ==
    /\ lastOp.op = "data"
    /\ lastOp.column = 1
    /\ row_count = MaxRows
    /\ first_id = MaxFirstId
    /\ lastOp.row = row_count - 1
    /\ lastOp.ret = texts[first_id + lastOp.row]
    /\ Len(chunk_cache) = MaxCachedChunks
    /\ 0 \notin CacheKeys(chunk_cache)

\* C6: when close() has returned, the worker thread has terminated and has
\* released its connection (_conn is None): the queued close_connection ran
\* before quit() took effect.
ShutdownDiscipline ==
    mainState = "closed" =>
        /\ ~workerRunning
        /\ conn = "none"

\* C7: a failed range read is delivered to the model as a result without rows
\* for that window (queued for it, or already taken off the pending set).
FetchFailureSignalled ==
    \A w \in failedReads :
        \/ \E i \in 1 .. Len(mainQueue) :
               mainQueue[i].chunk_start = w /\ mainQueue[i].rows = <<>>
        \/ w \notin pending_chunks

\* C8: a completion for window w with n rows notifies exactly rows w .. w + n - 1,
\* after the cache is updated: each of them is readable in every column.
ChangeNotification ==
    lastOp.op = "on_chunk_loaded" =>
        LET w == lastOp.chunk
            n == lastOp.loaded
        IN  /\ n >= 1
            /\ lastOp.notified = <<w, w + n - 1>>
            /\ w \in CacheKeys(chunk_cache)
            /\ Len(CacheGet(chunk_cache, w)) = n
            /\ \A r \in w .. (w + n - 1), c \in 0 .. (NumCols - 1) :
                   DataValue(chunk_cache, Index(r, c)) # None

\* C8 witness: the completion of a short last window that evicted another one
ChangeNotificationWitness ==
    /\ lastOp.op = "on_chunk_loaded"
    /\ lastOp.loaded >= 1
    /\ lastOp.loaded < CacheSize
    /\ lastOp.evicted >= 1
    /\ lastOp.notified = <<lastOp.chunk, row_count - 1>>

\* C9: only the worker thread opens, reads through or closes the worker's
\* connection; data() on the GUI thread never does.
WorkerOwnsHandle ==
    /\ [](/\ storeUsers \subseteq {"worker"}
          /\ conn # "none" => storeUsers = {"worker"})
    /\ [][lastOp' # lastOp /\ lastOp'.op = "data"
              => /\ UNCHANGED <<conn, storeUsers, mainQueue, texts>>
                 /\ lastOp'.ret = DataValue(chunk_cache, Index(lastOp'.row, lastOp'.column))]_vars

\* C9 witness: the connection was opened, read and closed, and data() served a value
WorkerOwnsHandleWitness ==
    /\ storeUsers = {"worker"}
    /\ mainState = "closed"
    /\ conn = "none"
    /\ lastOp.op = "data"
    /\ lastOp.ret # None

\* C10: only the GUI thread changes _chunk_cache and _pending_chunks; a result
\* reaches them through the GUI thread's event queue, and no worker step changes them.
SingleWriterCache ==
    /\ [](cacheWriters \subseteq {"main"})
    /\ [][(workerQueue # <<>> /\ workerQueue' = Tail(workerQueue))
              \/ workerRunning' # workerRunning
              => UNCHANGED <<chunk_cache, pending_chunks>>]_vars
    /\ [][chunk_cache' # chunk_cache
              => mainQueue # <<>> /\ mainQueue' = Tail(mainQueue)
                 /\ Head(mainQueue).chunk_start \in CacheKeys(chunk_cache')]_vars

\* C10 witness: a result was applied on the GUI thread while the worker had
\* already queued the next one
SingleWriterCacheWitness ==
    /\ cacheWriters = {"main"}
    /\ lastOp.op = "on_chunk_loaded"
    /\ mainQueue # <<>>
    /\ workerQueue # <<>>

\* ------------------------------------------------------------------------
\* Specification SpecOrder: the completions of one set of requested windows,
\* delivered to _on_chunk_loaded in request order (run A) and in any order
\* (run B), both runs starting from the same cache
\* ------------------------------------------------------------------------
OrderTable == DenseTable(1, OrderWindows * CacheSize)

OrderStarts == {w * CacheSize : w \in 0 .. (OrderWindows - 1)}

\* what load_chunk reads for window w of OrderTable
OrderRows(w) == SelectRange(OrderTable, StartId(1, w), CacheSize)

InjectiveSeqs(S, maxLen) ==
    {q \in UNION {[1 .. n -> S] : n \in 0 .. maxLen} :
        \A i, j \in 1 .. Len(q) : i # j => q[i] # q[j]}

SeqRange(q) == {q[i] : i \in 1 .. Len(q)}

OrderInit ==
    /\ orderInitial \in
          {[i \in 1 .. Len(q) |-> [start |-> q[i], rows |-> OrderRows(q[i])]] :
              q \in InjectiveSeqs(OrderStarts, MaxCachedChunks)}
    /\ orderRequested \in InjectiveSeqs(OrderStarts \ CacheKeys(orderInitial), OrderWindows)
    /\ orderDoneA = 0
    /\ orderCacheA = orderInitial
    /\ orderPendingA = SeqRange(orderRequested)
    /\ orderCacheB = orderInitial
    /\ orderPendingB = SeqRange(orderRequested)

InitOrder ==
    /\ texts = OrderTable
    /\ row_count = CountRows(texts)
    /\ first_id = FirstIdOf(texts)
    /\ ThreadedInit
    /\ OrderInit
    /\ DetailInit
    /\ SeedAtRest
    /\ RangeAtRest
    /\ ViewAtRest
    /\ SyncAtRest

\* run A: _on_chunk_loaded for the next window in request order
DeliverInOrder ==
    /\ orderDoneA < Len(orderRequested)
    /\ LET chunk_start == orderRequested[orderDoneA + 1]
       IN  /\ orderPendingA' = orderPendingA \ {chunk_start}
           /\ orderCacheA' = CacheAfterLoad(orderCacheA, chunk_start, OrderRows(chunk_start))
    /\ orderDoneA' = orderDoneA + 1
    /\ UNCHANGED <<orderInitial, orderRequested, orderCacheB, orderPendingB>>
    /\ UNCHANGED <<storeVars, threadedVars, detailVars, seedVars, rangeVars, viewVars, syncVars>>

\* run B: _on_chunk_loaded for any window still pending
DeliverAnyOrder ==
    /\ \E chunk_start \in orderPendingB :
           /\ orderPendingB' = orderPendingB \ {chunk_start}
           /\ orderCacheB' = CacheAfterLoad(orderCacheB, chunk_start, OrderRows(chunk_start))
    /\ UNCHANGED <<orderInitial, orderRequested, orderDoneA, orderCacheA, orderPendingA>>
    /\ UNCHANGED <<storeVars, threadedVars, detailVars, seedVars, rangeVars, viewVars, syncVars>>

NextOrder ==
    \/ DeliverInOrder
    \/ DeliverAnyOrder

SpecOrder == InitOrder /\ [][NextOrder]_vars

\* the contents of a dict, as == compares two dicts: without their order
CacheContents(cache) == {cache[i] : i \in 1 .. Len(cache)}

OrderBothDone == orderDoneA = Len(orderRequested) /\ orderPendingB = {}

\* C5 as stated: whatever windows were requested, delivering their completions in
\* any order leaves the same cache contents as delivering them in request order.
OutOfOrderTolerance ==
    OrderBothDone => CacheContents(orderCacheA) = CacheContents(orderCacheB)

\* C5 amended: when the resident and the requested windows together do not
\* exceed _max_cached_chunks, every delivery order leaves the same cache
\* contents; in every case both orders leave the same number of windows and
\* the same rows for a window resident in both.
OutOfOrderToleranceWithinCapacity ==
    OrderBothDone =>
        /\ Len(orderInitial) + Len(orderRequested) <= MaxCachedChunks
              => CacheContents(orderCacheA) = CacheContents(orderCacheB)
        /\ Len(orderCacheA) = Len(orderCacheB)
        /\ \A w \in CacheKeys(orderCacheA) \cap CacheKeys(orderCacheB) :
               CacheGet(orderCacheA, w) = CacheGet(orderCacheB, w)

\* C5 witness: two or more windows were delivered in an order other than the
\* request order, and both runs ended with the same contents
OutOfOrderToleranceWitness ==
    /\ OrderBothDone
    /\ Len(orderRequested) >= 2
    /\ Len(orderInitial) + Len(orderRequested) <= MaxCachedChunks
    /\ CacheKeys(orderCacheB) = SeqRange(orderRequested) \cup CacheKeys(orderInitial)
    /\ \E i \in 1 .. Len(orderCacheB) :
           orderCacheB[i].start # orderCacheA[i].start

\* ------------------------------------------------------------------------
\* Specification SpecDetail: the thread-pool detail pipeline over the
\* synchronous single-window model
\* ------------------------------------------------------------------------
Max2(a, b) == IF a >= b THEN a ELSE b

\* an _ensure_cache that reads the window again on every call
EnsureCacheAlwaysReads(start, rows, row) ==
    LET new_start == Max2(0, row - (CacheSize \div 2))
    IN  [start |-> new_start,
         rows |-> SelectRange(texts, StartId(first_id, new_start), CacheSize),
         queried |-> TRUE]

\* SqliteTableModel._ensure_cache(row) of the synchronous model: the window after it
\* queried: the SELECT was executed
EnsureCache(start, rows, row) ==
    IF start <= row /\ row < start + Len(rows)
    THEN [start |-> start, rows |-> rows, queried |-> FALSE]
    ELSE LET new_start == Max2(0, row - (CacheSize \div 2))
         IN  [start |-> new_start,
              rows |-> SelectRange(texts, StartId(first_id, new_start), CacheSize),
              queried |-> TRUE]

\* SqliteTableModel.data(index) of the synchronous model, read from the window
\* _ensure_cache left
SyncDataValue(window, index) ==
    IF ~index.valid THEN None
    ELSE LET offset == index.row - window.start
         IN  IF offset < 0 \/ offset >= Len(window.rows) THEN None
             ELSE window.rows[offset + 1][index.column + 1]

IsStaleNever(request_id, live_id) == FALSE

\* if request_id != self._detail_request_id: return
IsStale(request_id, live_id) == request_id # live_id

\* a pool that starts the new task at once whatever its thread is doing
PoolAfterStartAtOnce(active, task) == [active |-> task, queue |-> <<>>]

\* a start(task) that forgets the task when the pool's thread is busy
PoolAfterStartDropsWhenBusy(active, task) ==
    IF active = NoTask
    THEN [active |-> task, queue |-> <<>>]
    ELSE [active |-> active, queue |-> <<>>]

\* start(task) without the clear() before it
PoolAfterStartNoClear(active, task) ==
    IF active = NoTask
    THEN [active |-> task, queue |-> <<>>]
    ELSE [active |-> active, queue |-> Append(poolQueue, task)]

\* QThreadPool.start(task) after clear(), with setMaxThreadCount(1): the task runs at
\* once on the free thread, or waits in the queue behind the running one
PoolAfterStart(active, task) ==
    IF active = NoTask
    THEN [active |-> task, queue |-> <<>>]
    ELSE [active |-> active, queue |-> <<task>>]

\* MainWindow._on_current_row_changed(current, previous)
OnCurrentRowChanged(valid, row) ==
    /\ ~detailClosed
    /\ detail_request_id < MaxSelections
    /\ detail_request_id' = detail_request_id + 1
    /\ detailLast' = [op |-> "selection", request_id |-> detail_request_id', applied |-> FALSE]
    /\ IF ~valid
       THEN /\ detail_value' = [kind |-> "cleared", request_id |-> detail_request_id',
                                text |-> <<"">>]
            /\ UNCHANGED <<cache_start, cache_rows, poolQueue, poolActive, createdTasks>>
       ELSE LET window == EnsureCache(cache_start, cache_rows, row)
                row_id == SyncDataValue(window, Index(row, 0))
                row_value == SyncDataValue(window, Index(row, 1))
            IN  /\ cache_start' = window.start
                /\ cache_rows' = window.rows
                /\ UNCHANGED detail_value
                /\ IF row_id = None \/ row_value = None
                   THEN UNCHANGED <<poolQueue, poolActive, createdTasks>>
                   ELSE LET task == [request_id |-> detail_request_id',
                                     row_id |-> row_id[2], row_value |-> row_value]
                            pool == PoolAfterStart(poolActive, task)
                        IN  /\ poolActive' = pool.active
                            /\ poolQueue' = pool.queue
                            /\ createdTasks' = createdTasks \cup {task.request_id}
    /\ UNCHANGED <<detailQueue, detailClosed, model_conn, ranTasks>>
    /\ UNCHANGED <<storeVars, threadedVars, orderVars, seedVars, rangeVars, viewVars, syncVars>>

SelectionChanged ==
    \/ OnCurrentRowChanged(FALSE, -1)
    \/ \E row \in 0 .. (row_count - 1) : OnCurrentRowChanged(TRUE, row)

\* a run() that tags its signal with the window's live counter
RunEmitsLiveCounter(task, outcome) ==
    CASE outcome = "not_implemented" ->
             <<[signal |-> "finished", outcome |-> outcome, request_id |-> detail_request_id,
                text |-> task.row_value]>>
      [] outcome = "returns" ->
             <<[signal |-> "finished", outcome |-> outcome, request_id |-> detail_request_id,
                text |-> <<"transformed", task.row_id>>]>>
      [] outcome = "raises" ->
             <<[signal |-> "failed", outcome |-> outcome, request_id |-> detail_request_id,
                text |-> <<"exception", task.row_id>>]>>

\* a run() whose except Exception branch emits nothing
RunEmitsDropsFailure(task, outcome) ==
    CASE outcome = "not_implemented" ->
             <<[signal |-> "finished", outcome |-> outcome, request_id |-> task.request_id, text |-> task.row_value]>>
      [] outcome = "returns" ->
             <<[signal |-> "finished", outcome |-> outcome, request_id |-> task.request_id,
                text |-> <<"transformed", task.row_id>>]>>
      [] outcome = "raises" -> <<>>

\* a run() without the except NotImplementedError branch
RunEmitsFailsUnimplemented(task, outcome) ==
    CASE outcome = "not_implemented" ->
             <<[signal |-> "failed", outcome |-> outcome, request_id |-> task.request_id,
                text |-> <<"exception", task.row_id>>]>>
      [] outcome = "returns" ->
             <<[signal |-> "finished", outcome |-> outcome, request_id |-> task.request_id,
                text |-> <<"transformed", task.row_id>>]>>
      [] outcome = "raises" ->
             <<[signal |-> "failed", outcome |-> outcome, request_id |-> task.request_id,
                text |-> <<"exception", task.row_id>>]>>

\* the signals DetailTransformTask.run emits, by what transform_fn does:
\* raises NotImplementedError (display_value = row_value), returns a value,
\* raises another Exception (failed, with str(exc))
RunEmits(task, outcome) ==
    CASE outcome = "not_implemented" ->
             <<[signal |-> "finished", outcome |-> outcome, request_id |-> task.request_id, text |-> task.row_value]>>
      [] outcome = "returns" ->
             <<[signal |-> "finished", outcome |-> outcome, request_id |-> task.request_id,
                text |-> <<"transformed", task.row_id>>]>>
      [] outcome = "raises" ->
             <<[signal |-> "failed", outcome |-> outcome, request_id |-> task.request_id,
                text |-> <<"exception", task.row_id>>]>>

\* DetailTransformTask.run on the pool's thread, then the thread takes the next
\* queued task; transform_fn raises NotImplementedError, returns, or raises
TaskRun ==
    /\ poolActive # NoTask
    /\ \E outcome \in {"not_implemented", "returns", "raises"} :
         /\ ranTasks' = Append(ranTasks, poolActive.request_id)
         /\ detailQueue' = detailQueue \o RunEmits(poolActive, outcome)
    /\ IF poolQueue # <<>>
       THEN poolActive' = Head(poolQueue) /\ poolQueue' = Tail(poolQueue)
       ELSE poolActive' = NoTask /\ UNCHANGED poolQueue
    /\ UNCHANGED <<cache_start, cache_rows, detail_request_id, detail_value, detailClosed,
                   model_conn, detailLast, createdTasks>>
    /\ UNCHANGED <<storeVars, threadedVars, orderVars, seedVars, rangeVars, viewVars, syncVars>>

\* MainWindow._on_detail_ready(request_id, display_value)
OnDetailReady ==
    /\ detailQueue # <<>>
    /\ Head(detailQueue).signal = "finished"
    /\ LET msg == Head(detailQueue)
       IN  IF IsStale(msg.request_id, detail_request_id)
           THEN /\ UNCHANGED detail_value
                /\ detailLast' = [op |-> "ready", request_id |-> msg.request_id,
                                  applied |-> FALSE]
           ELSE /\ detail_value' = [kind |-> "result", request_id |-> msg.request_id,
                                    text |-> msg.text]
                /\ detailLast' = [op |-> "ready", request_id |-> msg.request_id,
                                  applied |-> TRUE]
    /\ detailQueue' = Tail(detailQueue)
    /\ UNCHANGED <<cache_start, cache_rows, detail_request_id, poolQueue, poolActive,
                   detailClosed, model_conn, createdTasks, ranTasks>>
    /\ UNCHANGED <<storeVars, threadedVars, orderVars, seedVars, rangeVars, viewVars, syncVars>>

\* MainWindow._on_detail_failed(request_id, error_message)
OnDetailFailed ==
    /\ detailQueue # <<>>
    /\ Head(detailQueue).signal = "failed"
    /\ LET msg == Head(detailQueue)
       IN  IF IsStale(msg.request_id, detail_request_id)
           THEN /\ UNCHANGED detail_value
                /\ detailLast' = [op |-> "failed", request_id |-> msg.request_id,
                                  applied |-> FALSE]
           ELSE /\ detail_value' = [kind |-> "error", request_id |-> msg.request_id,
                                    text |-> msg.text]
                /\ detailLast' = [op |-> "failed", request_id |-> msg.request_id,
                                  applied |-> TRUE]
    /\ detailQueue' = Tail(detailQueue)
    /\ UNCHANGED <<cache_start, cache_rows, detail_request_id, poolQueue, poolActive,
                   detailClosed, model_conn, createdTasks, ranTasks>>
    /\ UNCHANGED <<storeVars, threadedVars, orderVars, seedVars, rangeVars, viewVars, syncVars>>

\* MainWindow.closeEvent: clear() the queued tasks, waitForDone(2000) (it returns
\* whether or not the running task has ended), model.close()
CloseEvent ==
    /\ ~detailClosed
    /\ poolQueue' = <<>>
    /\ model_conn' = "closed"
    /\ detailClosed' = TRUE
    /\ detailLast' = [op |-> "close", request_id |-> 0, applied |-> FALSE]
    /\ UNCHANGED <<cache_start, cache_rows, detail_request_id, detail_value, poolActive,
                   detailQueue, createdTasks, ranTasks>>
    /\ UNCHANGED <<storeVars, threadedVars, orderVars, seedVars, rangeVars, viewVars, syncVars>>

InitDetail ==
    /\ StoreInit
    /\ ThreadedInit
    /\ OrderAtRest
    /\ DetailInit
    /\ SeedAtRest
    /\ RangeAtRest
    /\ ViewAtRest
    /\ SyncAtRest

NextDetail ==
    \/ SelectionChanged
    \/ TaskRun
    \/ OnDetailReady
    \/ OnDetailFailed
    \/ CloseEvent

SpecDetail == InitDetail /\ [][NextDetail]_vars

\* a step that delivers the oldest posted finished / failed signal
DetailDelivery == detailQueue # <<>> /\ detailQueue' = Tail(detailQueue)

\* C3: _on_detail_ready and _on_detail_failed write the pane exactly when the
\* delivered request_id is the live _detail_request_id; the result of an earlier
\* selection that arrives after a newer selection-changed event leaves the pane as
\* it is.
StaleResultDiscard ==
    /\ [](detailLast.op \in {"ready", "failed"} =>
             (detailLast.applied <=> detailLast.request_id = detail_request_id))
    /\ [][DetailDelivery /\ Head(detailQueue).request_id # detail_request_id
              => detail_value' = detail_value]_vars
    /\ [][DetailDelivery /\ detail_value' # detail_value
              => /\ Head(detailQueue).request_id = detail_request_id
                 /\ detail_value'.request_id = detail_request_id]_vars

\* C3 witness: the result of an earlier selection arrived after a newer
\* selection-changed event and was dropped, the newer one's result is still to come
StaleResultDiscardWitness ==
    /\ detailLast.op \in {"ready", "failed"}
    /\ ~detailLast.applied
    /\ detailLast.request_id < detail_request_id
    /\ detail_value.request_id # detailLast.request_id
    /\ poolActive.request_id = detail_request_id


\* a completion is delivered to _on_chunk_loaded in this step
CompletionStep == mainQueue # <<>> /\ mainQueue' = Tail(mainQueue)

\* C12: between handler steps no window start is in both _chunk_cache and
\* _pending_chunks, and the one step that handles a completion takes its
\* window out of _pending_chunks and puts it in _chunk_cache.
CachePendingDisjoint ==
    /\ [](CacheKeys(chunk_cache) \cap pending_chunks = {})
    /\ [][CompletionStep =>
            LET chunk_start == Head(mainQueue).chunk_start
            IN  /\ chunk_start \in pending_chunks
                /\ chunk_start \notin CacheKeys(chunk_cache)
                /\ chunk_start \notin pending_chunks'
                /\ chunk_start \in CacheKeys(chunk_cache')]_vars

\* a completion has just moved a window into a cache that holds another
\* window, while a third window is still pending
CachePendingDisjointWitness ==
    /\ lastOp.op = "on_chunk_loaded"
    /\ lastOp.chunk \in CacheKeys(chunk_cache)
    /\ Len(chunk_cache) >= 2
    /\ pending_chunks # {}

\* the last lookup asked for a row position >= total rows or a column outside the two columns
LookupOutOfRange(op) == op.op = "data" /\ (op.row >= row_count \/ op.column >= NumCols)

\* C13 as stated: a lookup with a row position >= total rows, or a column
\* outside the two columns, is rejected with an error and not answered with
\* the absent value.
ContractViolationsFailLoudly == LookupOutOfRange(lastOp) => lastOp.ret # None

\* C13 as the code has it: a lookup with a row position >= total rows, or a
\* column outside the two columns, is answered with the absent value; it
\* requests no window and changes neither the cache, the pending set nor the
\* two queues.
OutOfRangeLookupAnsweredAbsent ==
    [][lastOp' # lastOp /\ LookupOutOfRange(lastOp') =>
          /\ lastOp'.ret = None
          /\ ~lastOp'.emitted
          /\ UNCHANGED <<chunk_cache, pending_chunks, workerQueue, mainQueue>>]_vars

\* a lookup one past the last row of a table whose first window is resident
OutOfRangeLookupWitness ==
    /\ lastOp.op = "data"
    /\ lastOp.row = row_count
    /\ lastOp.column < NumCols
    /\ row_count > 0
    /\ chunk_cache # <<>>
    /\ lastOp.ret = None

\* ------------------------------------------------------------------------
\* ensure_database: filling the table up to target_rows
\* ------------------------------------------------------------------------
SetMax(S) == CHOOSE m \in S : \A x \in S : x <= m

\* INSERT INTO texts(value) VALUES (?), n times: AUTOINCREMENT gives each row
\* the id after the largest one (1 in an empty table)
InsertRows(table, n) ==
    LET next == IF DOMAIN table = {} THEN 1 ELSE SetMax(DOMAIN table) + 1
    IN  [k \in DOMAIN table \cup (next .. (next + n - 1)) |->
            IF k \in DOMAIN table THEN table[k] ELSE TextCell(k)]

\* a call fills without counting what the table holds
SeedCallAlwaysFills(target_rows) ==
    /\ seedPc \in {"idle", "returned"}
    /\ seedRuns < MaxSeedRuns
    /\ seedRuns' = seedRuns + 1
    /\ seedPrev' = [target |-> seedTarget, returned |-> seedPc = "returned"]
    /\ seedTarget' = target_rows
    /\ seedAtCall' = texts
    /\ seedBatches' = 0
    /\ seedUncommitted' = 0
    /\ seedPc' = "loop"
    /\ seedToInsert' = target_rows
    /\ UNCHANGED <<storeVars, threadedVars, orderVars, detailVars, rangeVars, viewVars, syncVars>>

\* ensure_database(db_path, target_rows), up to the while loop: returns at
\* once when the table holds target_rows rows or more
SeedCall(target_rows) ==
    /\ seedPc \in {"idle", "returned"}
    /\ seedRuns < MaxSeedRuns
    /\ seedRuns' = seedRuns + 1
    /\ seedPrev' = [target |-> seedTarget, returned |-> seedPc = "returned"]
    /\ seedTarget' = target_rows
    /\ seedAtCall' = texts
    /\ seedBatches' = 0
    /\ seedUncommitted' = 0
    /\ LET current_rows == CountRows(texts)
       IN  IF current_rows >= target_rows
           THEN seedPc' = "returned" /\ seedToInsert' = 0
           ELSE seedPc' = "loop" /\ seedToInsert' = target_rows - current_rows
    /\ UNCHANGED <<storeVars, threadedVars, orderVars, detailVars, rangeVars, viewVars, syncVars>>

\* one batch takes all the rows still missing
SeedChunkWhole(rows_to_insert) == rows_to_insert

\* chunk = min(BATCH_SIZE, rows_to_insert)
SeedChunk(rows_to_insert) == Min2(BatchSize, rows_to_insert)

\* the loop body up to the commit: the chunk is computed, executemany inserts
\* it, rows_to_insert -= chunk
SeedInsert ==
    /\ seedPc = "loop"
    /\ seedToInsert > 0
    /\ LET chunk == SeedChunk(seedToInsert)
       IN  /\ seedUncommitted' = chunk
           /\ seedToInsert' = seedToInsert - chunk
    /\ seedPc' = "inserted"
    /\ UNCHANGED <<seedTarget, seedBatches, seedAtCall, seedPrev, seedRuns>>
    /\ UNCHANGED <<storeVars, threadedVars, orderVars, detailVars, rangeVars, viewVars, syncVars>>

\* conn.commit(): the batch becomes part of the table
SeedCommit ==
    /\ seedPc = "inserted"
    /\ texts' = InsertRows(texts, seedUncommitted)
    /\ seedUncommitted' = 0
    /\ seedBatches' = seedBatches + 1
    /\ seedPc' = "loop"
    /\ UNCHANGED <<seedTarget, seedToInsert, seedAtCall, seedPrev, seedRuns>>
    /\ UNCHANGED <<row_count, first_id, threadedVars, orderVars, detailVars, rangeVars, viewVars, syncVars>>

\* the while test fails: the function returns
SeedReturn ==
    /\ seedPc = "loop"
    /\ seedToInsert <= 0
    /\ seedPc' = "returned"
    /\ UNCHANGED <<seedTarget, seedToInsert, seedUncommitted, seedBatches, seedAtCall,
                   seedPrev, seedRuns>>
    /\ UNCHANGED <<storeVars, threadedVars, orderVars, detailVars, rangeVars, viewVars, syncVars>>

\* the process is stopped inside the loop: the rows of a batch that was not
\* committed are rolled back
SeedInterrupt ==
    /\ seedPc \in {"loop", "inserted"}
    /\ seedUncommitted' = 0
    /\ seedPc' = "idle"
    /\ UNCHANGED <<seedTarget, seedToInsert, seedBatches, seedAtCall, seedPrev, seedRuns>>
    /\ UNCHANGED <<storeVars, threadedVars, orderVars, detailVars, rangeVars, viewVars, syncVars>>

SeedCallStep == \E target_rows \in 0 .. MaxTarget : SeedCall(target_rows)

InitSeed ==
    /\ StoreInit
    /\ ThreadedInit
    /\ OrderAtRest
    /\ DetailInit
    /\ SeedAtRest
    /\ RangeAtRest
    /\ ViewAtRest
    /\ SyncAtRest

NextSeed ==
    \/ SeedCallStep
    \/ SeedInsert
    \/ SeedCommit
    \/ SeedReturn
    \/ SeedInterrupt

SpecSeed == InitSeed /\ [][NextSeed]_vars

\* C11: a call of ensure_database on a table that already holds target_rows
\* rows or more returns having committed no batch and leaves the table, its
\* count and its contents, as it was; so a call with the target of the call
\* that returned just before it leaves the table as that call left it.
IdempotentSeeding ==
    seedPc = "returned" =>
        /\ CountRows(seedAtCall) >= seedTarget =>
              /\ seedBatches = 0
              /\ texts = seedAtCall
              /\ CountRows(texts) = CountRows(seedAtCall)
        /\ seedPrev.returned /\ seedPrev.target = seedTarget => texts = seedAtCall

\* a second call with the same target has returned, after a first call that
\* had rows to insert
IdempotentSeedingWitness ==
    /\ seedPc = "returned"
    /\ seedRuns = 2
    /\ seedPrev.returned
    /\ seedPrev.target = seedTarget
    /\ seedTarget > 0
    /\ CountRows(texts) = seedTarget
    /\ texts = seedAtCall

\* ------------------------------------------------------------------------
\* The detail pipeline: what becomes of each task
\* ------------------------------------------------------------------------
\* how many times run() was called on the task of request id
TimesRun(id) == Cardinality({i \in DOMAIN ranTasks : ranTasks[i] = id})

\* the task of request id waits in the pool's queue / is being run
Queued(id) == \E i \in DOMAIN poolQueue : poolQueue[i].request_id = id

Running(id) == poolActive # NoTask /\ poolActive.request_id = id

\* the pool let go of the task of request id before run() was called on it
Dropped(id) == id \in createdTasks /\ TimesRun(id) = 0 /\ ~Queued(id) /\ ~Running(id)

\* C14 as stated: every task created by a selection-changed event is run
\* exactly once; none is dropped before it runs and none is run twice.
DetailRequestLifecycle ==
    \A id \in createdTasks :
        /\ ~Dropped(id)
        /\ TimesRun(id) <= 1

\* C14 as the code has it: no task is run twice, and a task the pool has
\* started is run; a task that has not started when a newer task is created,
\* or when the window closes, is dropped by clear() and never runs, so at most
\* one task waits and it is the newest one created.
DetailRequestLifecycleLatestOnly ==
    /\ [](/\ \A id \in createdTasks :
                 LET held == (IF Queued(id) THEN 1 ELSE 0) + (IF Running(id) THEN 1 ELSE 0)
                     ran == TimesRun(id)
                 IN  /\ ran + held <= 1
                     /\ ran + held = 0 =>
                            detailClosed \/ \E newer \in createdTasks : newer > id
          /\ Len(poolQueue) <= 1
          /\ poolQueue # <<>> =>
                /\ poolActive # NoTask
                /\ \A id \in createdTasks : id <= poolQueue[1].request_id)
    /\ [][poolActive # NoTask /\ poolActive' # poolActive =>
             /\ Len(ranTasks') = Len(ranTasks) + 1
             /\ ranTasks'[Len(ranTasks')] = poolActive.request_id]_vars

\* the second of three tasks was dropped unstarted; the first and the third ran
DetailRequestLifecycleWitness ==
    /\ createdTasks = {1, 2, 3}
    /\ Dropped(2)
    /\ TimesRun(1) = 1
    /\ TimesRun(3) = 1

\* run() is called on the running task in this step
TaskRunStep == poolActive # NoTask /\ Len(ranTasks') = Len(ranTasks) + 1

\* C15: every run of a detail task emits exactly one signal, finished or
\* failed, carrying the task's request id; when transform_fn raises an
\* exception other than NotImplementedError the signal is failed with the
\* exception's text, and that text is written to the pane exactly when the
\* request id is the live one on arrival. An error text reaches the pane in no
\* other way.
DetailFailureHandling ==
    /\ [][TaskRunStep =>
            LET emitted == detailQueue'[Len(detailQueue')]
            IN  /\ Len(detailQueue') = Len(detailQueue) + 1
                /\ SubSeq(detailQueue', 1, Len(detailQueue)) = detailQueue
                /\ emitted.signal \in {"finished", "failed"}
                /\ emitted.request_id = poolActive.request_id
                /\ emitted.outcome = "raises" <=> emitted.signal = "failed"
                /\ emitted.outcome = "raises" =>
                       emitted.text = <<"exception", poolActive.row_id>>]_vars
    /\ [][DetailDelivery /\ Head(detailQueue).signal = "failed" =>
            IF Head(detailQueue).request_id = detail_request_id
            THEN detail_value' = [kind |-> "error", request_id |-> detail_request_id,
                                  text |-> Head(detailQueue).text]
            ELSE detail_value' = detail_value]_vars
    /\ [][detail_value'.kind = "error" /\ detail_value' # detail_value =>
            /\ DetailDelivery
            /\ Head(detailQueue).signal = "failed"
            /\ Head(detailQueue).request_id = detail_request_id]_vars
    /\ [](\A i \in DOMAIN detailQueue :
             /\ TimesRun(detailQueue[i].request_id) = 1
             /\ detailQueue[i].signal = "failed" <=> detailQueue[i].outcome = "raises")

\* the pane shows the error of the live request, after the task of an earlier
\* request ran
DetailFailureHandlingWitness ==
    /\ detail_value.kind = "error"
    /\ detail_value.request_id = detail_request_id
    /\ detailLast.op = "failed"
    /\ detailLast.applied
    /\ \E id \in createdTasks : id < detail_request_id /\ TimesRun(id) = 1

\* C16: when transform_fn raises NotImplementedError the task emits finished,
\* not failed, carrying the raw value of the selected row; the pane then shows
\* that raw value and no error text, and only when the request id is the live
\* one on arrival.
RawValueFallback ==
    /\ [](\A task \in {poolActive} \cup {poolQueue[i] : i \in DOMAIN poolQueue} :
             task # NoTask => task.row_value = texts[task.row_id])
    /\ [][TaskRunStep /\ detailQueue'[Len(detailQueue')].outcome = "not_implemented" =>
             detailQueue'[Len(detailQueue')] =
                 [signal |-> "finished", outcome |-> "not_implemented",
                  request_id |-> poolActive.request_id,
                  text |-> texts[poolActive.row_id]]]_vars
    /\ [][DetailDelivery /\ Head(detailQueue).outcome = "not_implemented" =>
            /\ Head(detailQueue).signal = "finished"
            /\ \E k \in DOMAIN texts : Head(detailQueue).text = texts[k]
            /\ IF Head(detailQueue).request_id = detail_request_id
               THEN detail_value' = [kind |-> "result", request_id |-> detail_request_id,
                                     text |-> Head(detailQueue).text]
               ELSE detail_value' = detail_value]_vars

\* the pane shows the raw value of the live request, whose transform is not
\* implemented, after the task of an earlier request ran
RawValueFallbackWitness ==
    /\ detail_value.kind = "result"
    /\ detail_value.request_id = detail_request_id
    /\ \E k \in DOMAIN texts : detail_value.text = texts[k]
    /\ detailLast.op = "ready"
    /\ detailLast.applied
    /\ TimesRun(detail_request_id) = 1
    /\ \E id \in createdTasks : id < detail_request_id /\ TimesRun(id) = 1

\* ------------------------------------------------------------------------
\* Addresses: positions, window starts, ids
\* ------------------------------------------------------------------------
\* a load request is posted to the worker in this step
RequestStep ==
    /\ Len(workerQueue') = Len(workerQueue) + 1
    /\ workerQueue'[Len(workerQueue')].type = "load"

\* load_chunk emits chunk_loaded in this step
ResultStep == Len(mainQueue') = Len(mainQueue) + 1

\* C17: a miss on position p requests the window that starts at
\* floor(p / window_size) * window_size, with limit window_size; the worker
\* reads that window from the id first_id + window_start on, and the cell a
\* later lookup of p returns belongs to the record with id first_id + p. With
\* window_size 1000 and first_id 1, position 2_500_500 gives window start
\* 2_500_000, start id 2_500_001 and the record with id 2_500_501.
AddressArithmetic ==
    /\ [](/\ ChunkStart(2500500, 1000) = 2500000
          /\ StartId(1, ChunkStart(2500500, 1000)) = 2500001
          /\ StartId(1, ChunkStart(2500500, 1000)) + (2500500 - ChunkStart(2500500, 1000))
                 = 2500501)
    /\ [][RequestStep =>
            LET req == workerQueue'[Len(workerQueue')]
                p == lastOp'.row
            IN  /\ lastOp'.op = "data"
                /\ req.chunk_size = CacheSize
                /\ req.start_row % CacheSize = 0
                /\ req.start_row <= p
                /\ p < req.start_row + CacheSize]_vars
    /\ [][ResultStep =>
            LET req == Head(workerQueue)
                res == mainQueue'[Len(mainQueue')]
            IN  /\ res.chunk_start = req.start_row
                /\ Len(res.rows) <= req.chunk_size
                /\ \A i \in 1 .. Len(res.rows) :
                       res.rows[i] = Record(first_id + req.start_row + (i - 1))
                /\ \A k \in DOMAIN texts :
                       /\ k >= first_id + req.start_row
                       /\ k < first_id + req.start_row + req.chunk_size
                       => \E i \in 1 .. Len(res.rows) : res.rows[i][1] = IdCell(k)]_vars
    /\ [](lastOp.op = "data" /\ lastOp.ret # None =>
             lastOp.ret = Record(first_id + lastOp.row)[lastOp.column + 1])

\* a lookup in the middle of a window that is not the first, in a table whose
\* ids do not start at 1, returned a cell
AddressArithmeticWitness ==
    /\ lastOp.op = "data"
    /\ lastOp.ret # None
    /\ lastOp.row > CacheSize
    /\ lastOp.row % CacheSize # 0
    /\ first_id > 1

\* ------------------------------------------------------------------------
\* One range read on a table with any set of ids
\* ------------------------------------------------------------------------
\* a table whose ids are any subset of 1 .. MaxKey (rows may have been deleted)
InitRange ==
    /\ \E ids \in SUBSET (1 .. MaxKey) : texts = [k \in ids |-> TextCell(k)]
    /\ row_count = CountRows(texts)
    /\ first_id = FirstIdOf(texts)
    /\ ThreadedInit
    /\ OrderAtRest
    /\ DetailInit
    /\ SeedAtRest
    /\ RangeAtRest
    /\ ViewAtRest
    /\ SyncAtRest

\* conn.execute("SELECT id, value FROM texts WHERE id >= ? ORDER BY id LIMIT ?",
\* (start_id, chunk_size)).fetchall()
ReadRange(start_id, chunk_size) ==
    /\ rangeStart' = start_id
    /\ rangeLimit' = chunk_size
    /\ rangeResult' = SelectRange(texts, start_id, chunk_size)
    /\ rangeDone' = TRUE
    /\ UNCHANGED <<storeVars, threadedVars, orderVars, detailVars, seedVars, viewVars, syncVars>>

NextRange == \E start_id \in 0 .. (MaxKey + 1), chunk_size \in 0 .. MaxLimit :
                 ReadRange(start_id, chunk_size)

SpecRange == InitRange /\ [][NextRange]_vars

\* the ids of the rows of a result, in the order returned
ResultKeys(result) == [i \in 1 .. Len(result) |-> result[i][1][2]]

\* C18: a range read with start id s and limit n returns the first
\* min(n, number of rows with id >= s) rows with id >= s, in ascending id order
\* and each with its own value; no row with id >= s below a returned id is left
\* out, and fewer than n rows come back only when every row with id >= s is
\* returned.
KeysetReaderResult ==
    rangeDone =>
        LET matching == {k \in DOMAIN texts : k >= rangeStart}
            keys == ResultKeys(rangeResult)
            returned == {keys[i] : i \in DOMAIN keys}
        IN  /\ Len(rangeResult) = Min2(rangeLimit, Cardinality(matching))
            /\ returned \subseteq matching
            /\ \A i \in DOMAIN keys : rangeResult[i] = <<IdCell(keys[i]), texts[keys[i]]>>
            /\ \A i, j \in DOMAIN keys : i < j => keys[i] < keys[j]
            /\ \A k \in matching \ returned : \A r \in returned : r < k
            /\ Len(rangeResult) < rangeLimit => returned = matching

\* a read that starts at an absent id between two rows, returns limit rows
\* across a gap in the ids and leaves a later row unread
KeysetReaderResultWitness ==
    /\ rangeDone
    /\ rangeLimit >= 2
    /\ Len(rangeResult) = rangeLimit
    /\ rangeStart \notin DOMAIN texts
    /\ \E k \in DOMAIN texts : k < rangeStart
    /\ ResultKeys(rangeResult)[2] > ResultKeys(rangeResult)[1] + 1
    /\ \E k \in DOMAIN texts : k > ResultKeys(rangeResult)[Len(rangeResult)]

\* ------------------------------------------------------------------------
\* Eviction order
\* ------------------------------------------------------------------------
\* data() is called in this step and finds the window of its row resident
HitStep ==
    /\ lastOp' # lastOp
    /\ lastOp'.op = "data"
    /\ lastOp'.row < row_count
    /\ lastOp'.column < NumCols
    /\ ChunkStart(lastOp'.row, CacheSize) \in CacheKeys(chunk_cache)

\* C19: a completion stores its window after the resident ones and, when that
\* exceeds the capacity, removes windows from the front of the insertion order,
\* the earliest stored first; a data() hit leaves the cache and its order, the
\* pending set and the request queue as they are.
FifoEviction ==
    /\ [][CompletionStep =>
            LET stored == Append(chunk_cache, [start |-> Head(mainQueue).chunk_start,
                                               rows |-> Head(mainQueue).rows])
                excess == IF Len(stored) > MaxCachedChunks
                          THEN Len(stored) - MaxCachedChunks ELSE 0
            IN  chunk_cache' = SubSeq(stored, excess + 1, Len(stored))]_vars
    /\ [][HitStep => UNCHANGED <<chunk_cache, pending_chunks, workerQueue>>]_vars

\* the first window was stored before another one and is the one a later
\* completion evicted from the full cache
FifoEvictionWitness ==
    /\ lastOp.op = "on_chunk_loaded"
    /\ lastOp.evicted = 1
    /\ 0 \notin CacheKeys(chunk_cache)
    /\ Len(chunk_cache) = MaxCachedChunks
    /\ chunk_cache[Len(chunk_cache)].start = lastOp.chunk
    /\ chunk_cache[1].start > 0
    /\ chunk_cache[1].start < lastOp.chunk

\* ------------------------------------------------------------------------
\* Windows
\* ------------------------------------------------------------------------
\* C20: every key of _chunk_cache and every element of _pending_chunks is a
\* multiple of the window size in [0, total rows); every cached window holds at
\* most window-size rows, and its i-th row (from 0) is the record of position
\* start + i, the one with id first_id + start + i on the dense table.
WindowWellFormed ==
    /\ \A start \in CacheKeys(chunk_cache) \cup pending_chunks :
           /\ start % CacheSize = 0
           /\ 0 <= start
           /\ start < row_count
    /\ \A w \in DOMAIN chunk_cache :
           /\ Len(chunk_cache[w].rows) <= CacheSize
           /\ \A i \in 0 .. (Len(chunk_cache[w].rows) - 1) :
                  /\ chunk_cache[w].start + i < row_count
                  /\ chunk_cache[w].rows[i + 1] = Record(first_id + chunk_cache[w].start + i)

\* the short last window is resident beside a full one while another window
\* is pending, in a table whose ids do not start at 1
WindowWellFormedWitness ==
    /\ first_id > 1
    /\ pending_chunks # {}
    /\ \E w \in DOMAIN chunk_cache :
           /\ Len(chunk_cache[w].rows) >= 1
           /\ Len(chunk_cache[w].rows) < CacheSize
    /\ \E w \in DOMAIN chunk_cache : Len(chunk_cache[w].rows) = CacheSize

\* ------------------------------------------------------------------------
\* The threaded model under fair scheduling
\* ------------------------------------------------------------------------
\* the worker's event loop handles every posted event and reads its exit flag;
\* the GUI thread's event loop delivers every posted result, and wait() returns
\* once the worker thread has ended. Lookups and close() come when the view
\* and the user make them.
Fairness ==
    /\ WF_vars(LoadChunk)
    /\ WF_vars(CloseConnection)
    /\ WF_vars(WorkerQuit)
    /\ WF_vars(OnChunkLoaded)
    /\ WF_vars(CloseReturn)

SpecLive == Init /\ [][Next]_vars /\ Fairness

\* the completion of window start has just been handled: the window is resident,
\* no longer pending, and dataChanged covered all its rows
WindowDelivered(start) ==
    /\ start \notin pending_chunks
    /\ start \in CacheKeys(chunk_cache)
    /\ lastOp.op = "on_chunk_loaded"
    /\ lastOp.chunk = start
    /\ lastOp.notified = <<start, Min2(start + CacheSize, row_count) - 1>>

\* C21: while close() has not been called and the read of the window does not
\* fail, a window that is pending is eventually taken out of the pending set
\* and made resident, with a dataChanged that covers every row of the window,
\* so also the row whose miss requested it.
FetchLiveness ==
    \A start \in 0 .. MaxRows :
        (start \in pending_chunks) ~>
            \/ WindowDelivered(start)
            \/ start \in failedReads
            \/ mainState # "running"

\* the last, short window was delivered after it had been pending
FetchLivenessWitness ==
    /\ mainState = "running"
    /\ failedReads = {}
    /\ row_count % CacheSize # 0
    /\ \E start \in Windows :
           /\ start + CacheSize > row_count
           /\ WindowDelivered(start)
    /\ pending_chunks # {}

\* ------------------------------------------------------------------------
\* The detail pipeline under fair scheduling
\* ------------------------------------------------------------------------
\* the pool's thread runs the task it holds (every transform ends) and the GUI
\* thread's event loop delivers every posted finished / failed signal
DetailFairness ==
    /\ WF_vars(TaskRun)
    /\ WF_vars(OnDetailReady)
    /\ WF_vars(OnDetailFailed)

\* the pipeline over a table of at most LiveRows rows
InitDetailLive ==
    /\ \E n \in 1 .. LiveRows : texts = DenseTable(1, n)
    /\ row_count = CountRows(texts)
    /\ first_id = FirstIdOf(texts)
    /\ ThreadedInit
    /\ OrderAtRest
    /\ DetailInit
    /\ SeedAtRest
    /\ RangeAtRest
    /\ ViewAtRest
    /\ SyncAtRest

SpecDetailLive == InitDetailLive /\ [][NextDetail]_vars /\ DetailFairness

\* the pane shows the result or the error text of request id, whose task ran
Shown(id) ==
    /\ TimesRun(id) = 1
    /\ detail_value.request_id = id
    /\ detail_value.kind \in {"result", "error"}

\* C22: the task created for a selection runs and its result or its error text
\* is shown in the pane, whatever the pool was doing when it was created,
\* unless a later selection-changed event or the closing of the window comes
\* first.
DetailLiveness ==
    \A id \in 1 .. MaxSelections :
        (id \in createdTasks /\ detail_request_id = id) ~>
            \/ Shown(id)
            \/ detail_request_id # id
            \/ detailClosed

\* the third selection's result is shown; its task was created while the first
\* task was running and the second was waiting
DetailLivenessWitness ==
    /\ ~detailClosed
    /\ detail_request_id = 3
    /\ Shown(3)
    /\ Dropped(2)
    /\ TimesRun(1) = 1

\* ------------------------------------------------------------------------
\* The request counter
\* ------------------------------------------------------------------------
\* _on_current_row_changed is called in this step
SelectionStep == detailLast'.op = "selection" /\ detailLast' # detailLast

\* the tasks the pool holds
PoolTasks == {poolQueue[i] : i \in DOMAIN poolQueue} \cup ({poolActive} \ {NoTask})

\* C23: _detail_request_id never decreases; it goes up by exactly 1 on every
\* selection-changed event, a deselection that creates no task included, and
\* on no other step. A task carries the value the counter had when it was
\* created, no two tasks carry the same value, and a run of a task leaves the
\* counter alone and tags its signal with the task's own value.
GenerationCounter ==
    /\ [][/\ detail_request_id' >= detail_request_id
          /\ SelectionStep => detail_request_id' = detail_request_id + 1
          /\ detail_request_id' # detail_request_id => SelectionStep
          /\ createdTasks' # createdTasks =>
                /\ SelectionStep
                /\ createdTasks' = createdTasks \cup {detail_request_id'}
                /\ \E task \in {poolActive'} \cup {poolQueue'[i] : i \in DOMAIN poolQueue'} :
                       task.request_id = detail_request_id'
          /\ TaskRunStep =>
                /\ detail_request_id' = detail_request_id
                /\ detailQueue'[Len(detailQueue')].request_id = poolActive.request_id]_vars
    /\ [](/\ \A task \in PoolTasks :
                /\ task.request_id \in createdTasks
                /\ task.request_id >= 1
                /\ task.request_id <= detail_request_id
          /\ \A id \in createdTasks :
                TimesRun(id) + Cardinality({task \in PoolTasks : task.request_id = id}) <= 1
          /\ Cardinality(PoolTasks) = Len(poolQueue) + (IF poolActive = NoTask THEN 0 ELSE 1)
          /\ \A i, j \in DOMAIN detailQueue :
                i # j => detailQueue[i].request_id # detailQueue[j].request_id)

\* a signal tagged with an earlier value waits while the counter has moved on,
\* and one selection-changed event created no task
GenerationCounterWitness ==
    /\ detailQueue # <<>>
    /\ detailQueue[1].request_id < detail_request_id
    /\ \E id \in 1 .. detail_request_id : id \notin createdTasks
    /\ poolActive # NoTask

\* ------------------------------------------------------------------------
\* The pool's single thread
\* ------------------------------------------------------------------------
\* the pool's thread begins to run a task in this step
TaskStartStep == poolActive' # NoTask /\ poolActive' # poolActive

\* C24: the pool runs one task at a time. A task begins to run only on an idle
\* pool, or in the step in which the run of the task before it returns and it
\* is the oldest one waiting; so a newer task never begins while an older one
\* is still running, and every task that has run is older than the running one.
SerializedDetail ==
    /\ [][TaskStartStep =>
            \/ poolActive = NoTask /\ poolQueue = <<>>
            \/ /\ TaskRunStep
               /\ ranTasks'[Len(ranTasks')] = poolActive.request_id
               /\ poolQueue # <<>>
               /\ poolActive' = Head(poolQueue)
               /\ poolQueue' = Tail(poolQueue)]_vars
    /\ [](poolActive # NoTask =>
             /\ TimesRun(poolActive.request_id) = 0
             /\ \A i \in DOMAIN ranTasks : ranTasks[i] < poolActive.request_id
             /\ \A i \in DOMAIN poolQueue :
                    poolQueue[i].request_id > poolActive.request_id)
    /\ [](poolActive = NoTask => poolQueue = <<>>)

\* the third task runs; it was created while the first was running and began
\* when the run of the first returned
SerializedDetailWitness ==
    /\ poolActive # NoTask
    /\ poolActive.request_id = 3
    /\ Dropped(2)
    /\ ranTasks = <<1>>

\* ------------------------------------------------------------------------
\* Order of requests and completions
\* ------------------------------------------------------------------------
\* the worker's event loop takes an event in this step
WorkerTakesStep == workerQueue # <<>> /\ Len(workerQueue') = Len(workerQueue) - 1

\* C25: range reads are made by the one worker thread, one per step of its
\* event loop; the worker takes requests oldest first, a request joins the
\* queue behind the earlier ones, a result joins the result queue behind the
\* earlier results and is for the request just taken, and the model handles
\* results oldest first: completions reach the model in the order in which it
\* issued the requests, across all windows.
SerialChunkLoading ==
    /\ [](storeUsers \subseteq {WorkerAffinity})
    /\ [][/\ workerQueue' # workerQueue =>
                \/ WorkerTakesStep /\ workerQueue' = Tail(workerQueue)
                \/ /\ Len(workerQueue') = Len(workerQueue) + 1
                   /\ SubSeq(workerQueue', 1, Len(workerQueue)) = workerQueue
          /\ mainQueue' # mainQueue =>
                \/ /\ CompletionStep
                   /\ lastOp'.op = "on_chunk_loaded"
                   /\ lastOp'.chunk = Head(mainQueue).chunk_start
                \/ /\ ResultStep
                   /\ SubSeq(mainQueue', 1, Len(mainQueue)) = mainQueue
                   /\ WorkerTakesStep
                   /\ workerQueue' = Tail(workerQueue)
                   /\ Head(workerQueue).type = "load"
                   /\ mainQueue'[Len(mainQueue')].chunk_start = Head(workerQueue).start_row
          /\ lastOp'.op = "on_chunk_loaded" /\ lastOp' # lastOp => CompletionStep]_vars

\* two results wait in the order their requests were issued, a later window
\* before an earlier one, while a third request waits for the worker
SerialChunkLoadingWitness ==
    /\ Len(mainQueue) = 2
    /\ mainQueue[1].chunk_start > mainQueue[2].chunk_start
    /\ Len(workerQueue) = 1
    /\ workerQueue[1].type = "load"
    /\ failedReads = {}

\* ------------------------------------------------------------------------
\* After the worker's connection is closed
\* ------------------------------------------------------------------------
\* close() was called and the worker has handled request_worker_close
Released ==
    /\ mainState # "running"
    /\ \A i \in DOMAIN workerQueue : workerQueue[i].type # "close"

\* the worker handles request_worker_close in this step
ReleaseStep == WorkerTakesStep /\ Head(workerQueue).type = "close"

\* C26: when the worker handles the close signal every request posted before
\* close() has been taken by it and none waits behind; from then on the worker
\* takes no event, makes no range read, emits no result, and its connection
\* stays closed, also when data() misses after close() post new requests.
NoWorkAfterRelease ==
    /\ [][ReleaseStep =>
             /\ workerQueue' = <<>>
             /\ conn' = "none"
             /\ mainState = "waiting"]_vars
    /\ [][Released =>
             /\ ~WorkerTakesStep
             /\ ~ResultStep
             /\ conn' = "none"
             /\ storeUsers' = storeUsers
             /\ failedReads' = failedReads
             /\ Released']_vars
    /\ [](Released => conn = "none")

\* after close() returned with the connection released, a data() miss posted
\* a request that nobody will take
NoWorkAfterReleaseWitness ==
    /\ Released
    /\ mainState = "closed"
    /\ conn = "none"
    /\ LoadChunkThread \in storeUsers
    /\ workerQueue # <<>>
    /\ workerQueue[1].type = "load"
    /\ lastOp.op = "data"
    /\ lastOp.emitted

\* ------------------------------------------------------------------------
\* The pending set and the work in flight
\* ------------------------------------------------------------------------
\* C27: before close(), a window start is in _pending_chunks exactly when one
\* request or one undelivered result for it is in flight, and a completion is
\* handled only for a window that is pending and not resident.
PendingTracksOutstanding ==
    mainState = "running" =>
        /\ \A w \in Windows : w \in pending_chunks <=> Outstanding(w) = 1
        /\ \A i \in DOMAIN mainQueue :
               /\ mainQueue[i].chunk_start \in pending_chunks
               /\ mainQueue[i].chunk_start \notin CacheKeys(chunk_cache)

\* ------------------------------------------------------------------------
\* MainWindow of the threaded viewer: the selected row and the detail pane
\* ------------------------------------------------------------------------
\* the text _on_current_row_changed sets for a valid current row, from the two
\* cells data() returned: "Loading..." when one is None, else str(row_value),
\* transform_detail_data raising NotImplementedError
DetailText(row_id, row_value) ==
    IF row_id = None \/ row_value = None THEN LoadingText ELSE row_value

\* MainWindow._on_current_row_changed(current, previous), current at row (-1: no
\* current index). Its two data() calls are for the same row: the first
\* requests the window on a miss, the second finds it pending.
ViewRowChanged(row) ==
    /\ GuiThreadFree
    /\ row # selectedRow
    /\ selectedRow' = row
    /\ IF row < 0
       THEN /\ paneText' = EmptyText
            /\ ThreadedFrame
            /\ UNCHANGED <<storeVars, threadedVars>>
       ELSE /\ DataModel(row, 1)
            /\ paneText' = DetailText(DataValue(chunk_cache, Index(row, 0)),
                                      DataValue(chunk_cache, Index(row, 1)))

ViewSelect == \E row \in -1 .. (row_count - 1) : ViewRowChanged(row)

\* _on_chunk_loaded with MainWindow._on_model_data_changed connected to
\* dataChanged: the slot runs inside the emit, after the cache was updated, and
\* calls _on_current_row_changed when the current row is within the range
ViewOnChunkLoaded ==
    /\ OnChunkLoadedModel
    /\ UNCHANGED selectedRow
    /\ LET notified == NotifiedRows(Head(mainQueue).chunk_start, Head(mainQueue).rows,
                                    row_count)
       IN  IF /\ notified # <<>>
              /\ selectedRow >= 0
              /\ notified[1] <= selectedRow
              /\ selectedRow <= notified[2]
           THEN paneText' = DetailText(DataValue(chunk_cache', Index(selectedRow, 0)),
                                       DataValue(chunk_cache', Index(selectedRow, 1)))
           ELSE UNCHANGED paneText

\* MainWindow.__init__: the model is built, the slots are connected and, when
\* the table has rows, selectRow(0) has made row 0 current
\* the largest table of the viewer sessions explored
ViewRows == 4

InitView ==
    /\ \E f \in 1 .. MaxFirstId, n \in 0 .. ViewRows : texts = DenseTable(f, n)
    /\ row_count = CountRows(texts)
    /\ first_id = FirstIdOf(texts)
    /\ OrderAtRest
    /\ DetailInit
    /\ SeedAtRest
    /\ RangeAtRest
    /\ SyncAtRest
    /\ chunk_cache = <<>>
    /\ mainQueue = <<>>
    /\ conn = "none"
    /\ quitFlag = FALSE
    /\ workerRunning = TRUE
    /\ mainState = "running"
    /\ failedReads = {}
    /\ storeUsers = {}
    /\ IF row_count > 0
       THEN /\ selectedRow = 0
            /\ paneText = LoadingText
            /\ pending_chunks = {0}
            /\ workerQueue = <<[type |-> "load", start_row |-> 0, chunk_size |-> CacheSize]>>
            /\ cacheWriters = {ModelAffinity}
            /\ lastOp = [NoOp EXCEPT !.op = "data", !.row = 0, !.column = 1,
                                     !.emitted = TRUE, !.chunk = 0]
       ELSE /\ selectedRow = -1
            /\ paneText = EmptyText
            /\ pending_chunks = {}
            /\ workerQueue = <<>>
            /\ cacheWriters = {}
            /\ lastOp = NoOp

NextView ==
    \/ ViewSelect
    \/ DataStep
    \/ LoadChunk
    \/ CloseConnection
    \/ WorkerQuit
    \/ ViewOnChunkLoaded
    \/ CloseBegin
    \/ CloseReturn

\* the event loops of the worker and of the GUI thread, with the window's slot
\* on dataChanged
ViewFairness ==
    /\ WF_vars(LoadChunk)
    /\ WF_vars(CloseConnection)
    /\ WF_vars(WorkerQuit)
    /\ WF_vars(ViewOnChunkLoaded)
    /\ WF_vars(CloseReturn)

SpecView == InitView /\ [][NextView]_vars /\ ViewFairness

\* the value column of the record at position row
RowValue(row) == texts[first_id + row]

SeedFairness ==
    /\ WF_vars(SeedInsert)
    /\ WF_vars(SeedCommit)
    /\ WF_vars(SeedReturn)

SpecSeedLive == InitSeed /\ [][NextSeed]_vars /\ SeedFairness

\* the least number of batches of size b that hold n rows
CeilDiv(n, b) == (n + b - 1) \div b

\* C29: a call of ensure_database on a table that holds fewer rows than
\* target_rows leaves the loop (it returns unless it is stopped); when it
\* returns it has committed ceil((target_rows - c) / BATCH_SIZE) batches, c the
\* count it found, and the table holds exactly target_rows rows; every commit
\* adds between one and BATCH_SIZE rows. This holds for a call that follows a
\* stopped one as well: it counts the committed rows again.
SeedingCompletion ==
    /\ [](seedPc = "returned" /\ CountRows(seedAtCall) < seedTarget =>
             /\ seedBatches = CeilDiv(seedTarget - CountRows(seedAtCall), BatchSize)
             /\ CountRows(texts) = seedTarget)
    /\ [][texts' # texts =>
             /\ CountRows(texts') - CountRows(texts) \in 1 .. BatchSize
             /\ seedBatches' = seedBatches + 1]_vars
    /\ (seedPc \in {"loop", "inserted"}) ~> (seedPc \in {"returned", "idle"})

\* a call with the target of the stopped call before it has returned: it found
\* rows in the table, and its last batch was a short one
SeedingCompletionWitness ==
    /\ seedPc = "returned"
    /\ seedRuns >= 2
    /\ ~seedPrev.returned
    /\ seedPrev.target = seedTarget
    /\ CountRows(seedAtCall) > 0
    /\ CountRows(seedAtCall) < seedTarget
    /\ seedBatches >= 2
    /\ (seedTarget - CountRows(seedAtCall)) % BatchSize # 0
    /\ CountRows(texts) = seedTarget

\* ------------------------------------------------------------------------
\* Specification SpecSync: data() calls on the synchronous single-window model
\* ------------------------------------------------------------------------
\* SqliteTableModel.data(index, Qt.DisplayRole) of the synchronous model, index
\* made by index(row, column)
SyncData(row, column) ==
    LET index == Index(row, column)
    IN  /\ IF index.valid
           THEN LET window == EnsureCache(cache_start, cache_rows, index.row)
                IN  /\ cache_start' = window.start
                    /\ cache_rows' = window.rows
                    /\ syncLast' = [op |-> "data", row |-> row, column |-> column,
                                    ret |-> SyncDataValue(window, index),
                                    queried |-> window.queried]
           ELSE /\ UNCHANGED <<cache_start, cache_rows>>
                /\ syncLast' = [op |-> "data", row |-> row, column |-> column,
                                ret |-> None, queried |-> FALSE]
        /\ UNCHANGED <<detail_request_id, detail_value, poolQueue, poolActive, detailQueue,
                       detailClosed, model_conn, detailLast, createdTasks, ranTasks>>
        /\ UNCHANGED <<storeVars, threadedVars, orderVars, seedVars, rangeVars, viewVars>>

SyncDataStep == \E row \in -1 .. row_count, column \in 0 .. (NumCols - 1) : SyncData(row, column)

InitSync ==
    /\ StoreInit
    /\ ThreadedInit
    /\ OrderAtRest
    /\ DetailInit
    /\ SeedAtRest
    /\ RangeAtRest
    /\ ViewAtRest
    /\ SyncAtRest

NextSync == SyncDataStep

SpecSync == InitSync /\ [][NextSync]_vars

\* C30: on a table whose keys are consecutive, after data() for a row of the
\* table the window covers the row and holds at most _cache_size rows, and the
\* cell returned is the one of the record with key first_id + row; a data()
\* call for a row the window already covers executes no SELECT and leaves the
\* window as it was.
SingleWindowModel ==
    /\ [](syncLast.op = "data" /\ 0 <= syncLast.row /\ syncLast.row < row_count =>
             /\ cache_start <= syncLast.row
             /\ syncLast.row < cache_start + Len(cache_rows)
             /\ Len(cache_rows) <= CacheSize
             /\ syncLast.ret = IF syncLast.column = 0
                                THEN IdCell(first_id + syncLast.row)
                                ELSE texts[first_id + syncLast.row])
    /\ [][(/\ syncLast'.op = "data"
           /\ cache_start <= syncLast'.row
           /\ syncLast'.row < cache_start + Len(cache_rows)) =>
                /\ ~syncLast'.queried
                /\ cache_start' = cache_start
                /\ cache_rows' = cache_rows]_vars

\* a data() call has been answered from the window without a query, for a row
\* that is not the window's first, in a window that does not start the table
SingleWindowModelWitness ==
    /\ syncLast.op = "data"
    /\ ~syncLast.queried
    /\ cache_start > 0
    /\ syncLast.row > cache_start
    /\ syncLast.row < row_count
    /\ syncLast.column = 1
    /\ syncLast.ret = texts[first_id + syncLast.row]

====
